---- MODULE Spec2Model ----
(***************************************************************************)
(* Model of PFLTK's storage layer (src/src/db, tickets and users           *)
(* included), war synchronizer (src/src/initialization) and the label     *)
(* fetch of the map data source client (src/src/warAPI).                   *)
(*                                                                         *)
(* Storage is one sqlite database reached through one application          *)
(* connection.  `disk' holds the committed relations, `view' holds the     *)
(* relations as the connection sees them (committed rows plus the rows of  *)
(* its open transaction).  Python's sqlite3 opens a transaction implicitly *)
(* before an INSERT, makes it durable on conn.commit() and never rolls it  *)
(* back on its own when a statement or a Python call raises.               *)
(*                                                                         *)
(* Relations are the ones the handlers' SQL statements name (wars, maps,   *)
(* labels, icons, tickets, users) with the primary keys of                 *)
(* DB.generate_db; it creates no users table, whose key is the spec's.     *)
(* Foreign keys                                                            *)
(* are declared in the DDL but sqlite enforces them only after             *)
(* PRAGMA foreign_keys = ON, which no code issues: they are not enforced.  *)
(*                                                                         *)
(* A datetime is a natural number; the ISO-8601 text stored in a TEXT      *)
(* column is the record [iso |-> t].                                       *)
(***************************************************************************)
EXTENDS Integers, Sequences, FiniteSets, TLC

\* ---------------------------------------------------------------- bounds
\* highest war number an input may carry
MaxWar == 1
\* latest instant datetime.now() may return
MaxTime == 0
\* rows that direct insert_map / insert_label / insert_icon calls may add
MaxRows == 1
\* Map rows of a store the ticket operations start from
MaxMaps == 2
\* tickets that insert_ticket may store
MaxTickets == 2
\* mapTextItems of one response of the Map Data Source
MaxItems == 2

\* -------------------------------------------------------------- inputs
StoredWarNumbers == 0..MaxWar
WarNumbers == {0 - 1} \cup StoredWarNumbers
Times == 0..MaxTime
MapNames == {"FoobarHex", "BarbazHex"}
LabelTexts == {"Thing A"}
Points == {<<0, 0>>}
IconTypes == {25}
FlagMasks == {0}
Descriptions == {"The bunker base near the thing"}
TicketNumbers == 1..(MaxTickets + 1)
UserIds == {1, 2}
\* label_type arguments, as sequences of characters
LabelTypes ==
    {<<"M", "a", "j", "o", "r">>, <<"M", "A", "J", "O", "R">>,
     <<"M", "i", "n", "o", "r">>, <<"m", "i", "n", "o", "r">>,
     <<"B", "o", "t", "h">>, <<"B", "O", "T", "H">>,
     <<"d", "o", "o", "b", "i", "e">>, <<"M", "a", "j", "o", "r", "s">>, <<>>}
\* mapTextItems entries of a response
MapTextItems ==
    [text : {"Captain's Dread", "Cavitatis"}, x : {0}, y : {0},
     mapMarkerType : {"Major", "Minor"}]
Guilds == {"Teamsters Local"}

\* ------------------------------------------------------- python outcomes
NoExc == "returned"
None == <<>>

Ret(v) == [exc |-> NoExc, val |-> v]
Raise(e) == [exc |-> e, val |-> None]

\* ------------------------------------------------------------ DB helpers
\* DB.format_date_for_db: dt.isoformat()
format_date_for_db(dt) == [iso |-> dt]

\* a format_date_from_db that parses the stored string
format_date_parsed(dt) == Ret(dt.iso)

\* DB.format_date_from_db: datetime.datetime.fromisoformat(str) -- the
\* argument handed to fromisoformat is the builtin type `str', not the
\* parameter `dt', so the call raises TypeError for every input.
format_date_from_db(dt) == Raise("TypeError")

EmptyTables ==
    [wars |-> {}, maps |-> {}, labels |-> {}, icons |-> {}, tickets |-> {},
     users |-> {}]

\* ------------------------------------------------- the Map Data Source
\* GET /worldconquest/maps: the hex names of the current war
ApiHexes == <<"FoobarHex", "BarbazHex">>

\* mapTextItems of a hex: (text, x, y, mapMarkerType)
ApiTextItems(map_name) ==
    IF map_name = "FoobarHex"
    THEN << <<"Thing A", 0, 0, "Major">>, <<"Thing B", 1, 1, "Minor">> >>
    ELSE << <<"Thing A", 1, 1, "Major">> >>

\* mapItems of a hex: (x, y, iconType, flags)
ApiMapItems(map_name) ==
    IF map_name = "FoobarHex"
    THEN << <<0, 0, 25, 0>> >>
    ELSE << <<1, 1, 25, 0>> >>

VARIABLES disk, view, last, sync

vars == <<disk, view, last, sync>>

\* ------------------------------------------------------------- wars.py
\* SELECT war_number, last_fetched_on FROM wars
\* WHERE war_number = (SELECT MAX(war_number) FROM wars)
latest_war_rows(v) ==
    {w \in v.wars : \A o \in v.wars : o.war_number <= w.war_number}

select_latest_war(v) ==
    LET results == latest_war_rows(v) IN
    IF Cardinality(results) > 1 THEN Raise("MultipleUniqueRowsException")
    ELSE IF Cardinality(results) = 0 THEN Ret(None)
    ELSE LET row == CHOOSE r \in results : TRUE
             pulled_on == format_date_from_db(row.last_fetched_on)
         IN IF pulled_on.exc # NoExc THEN Raise(pulled_on.exc)
            ELSE Ret(<<row.war_number, pulled_on.val>>)

\* insert_war._war_already_exists
war_already_exists(war_num, v) ==
    LET results == {w \in v.wars : w.war_number = war_num} IN
    IF Cardinality(results) > 1 THEN Raise("MultipleUniqueRowsException")
    ELSE Ret(Cardinality(results) = 1)

\* insert_war._submit_new_war: INSERT INTO wars VALUES (?, ?); conn.commit()
\* (war_number is the primary key of wars)
submit_new_war(war_number, last_fetched_on, v) ==
    IF \E w \in v.wars : w.war_number = war_number
    THEN [exc |-> "IntegrityError", view |-> v, commit |-> FALSE]
    ELSE [exc |-> NoExc,
          view |-> [v EXCEPT !.wars = @ \cup
                      {[war_number |-> war_number,
                        last_fetched_on |-> format_date_for_db(last_fetched_on)]}],
          commit |-> TRUE]

\* insert_war without the lookup of the latest war and the newer-war test
insert_war_unordered(war_number, last_fetched_on, v) ==
    LET exists == war_already_exists(war_number, v) IN
    IF war_number < 0 THEN [exc |-> "ValueError", view |-> v, commit |-> FALSE]
    ELSE IF exists.val
         THEN [exc |-> "UniqueRowAlreadyExistsException", view |-> v,
               commit |-> FALSE]
    ELSE submit_new_war(war_number, last_fetched_on, v)

\* an insert_war that replaces the rows of the wars table by the new row
insert_war_replacing(war_number, last_fetched_on, v) ==
    IF war_number < 0 THEN [exc |-> "ValueError", view |-> v, commit |-> FALSE]
    ELSE [exc |-> NoExc,
          view |-> [v EXCEPT !.wars =
                      {[war_number |-> war_number,
                        last_fetched_on |-> format_date_for_db(last_fetched_on)]}],
          commit |-> TRUE]

\* insert_war: the outcome and the connection's view after the call;
\* `commit' tells whether conn.commit() was reached.
insert_war_result(war_number, last_fetched_on, v) ==
    LET exists == war_already_exists(war_number, v)
        latest_war_tuple == select_latest_war(v)
        fail(e) == [exc |-> e, view |-> v, commit |-> FALSE]
    IN
    IF war_number < 0 THEN fail("ValueError")
    ELSE IF exists.exc # NoExc THEN fail(exists.exc)
    ELSE IF exists.val THEN fail("UniqueRowAlreadyExistsException")
    ELSE IF latest_war_tuple.exc # NoExc THEN fail(latest_war_tuple.exc)
    ELSE IF latest_war_tuple.val # None /\ latest_war_tuple.val[1] > war_number
         THEN fail("NewerWarAlreadyExistsException")
    ELSE submit_new_war(war_number, last_fetched_on, v)


\* ------------------------------------------------------------- maps.py
\* an insert_map that replaces the rows of the same hex, whatever their war
insert_map_replacing_hex(map_name, war_number, v) ==
    [exc |-> NoExc,
     view |-> [v EXCEPT !.maps = {m \in @ : m.map_name # map_name} \cup
                  {[map_name |-> map_name, war_number |-> war_number]}]]

\* an insert_map that returns without having executed its INSERT
insert_map_skipped(map_name, war_number, v) ==
    [exc |-> NoExc, view |-> v]

\* insert_map: INSERT INTO maps VALUES (?, ?), primary key
\* (map_name, war_number); no commit
insert_map_result(map_name, war_number, v) ==
    LET row == [map_name |-> map_name, war_number |-> war_number] IN
    IF row \in v.maps
    THEN [exc |-> "IntegrityError", view |-> v]
    ELSE [exc |-> NoExc, view |-> [v EXCEPT !.maps = @ \cup {row}]]

\* SELECT map_name, war_number FROM maps
\* WHERE war_number = (SELECT MAX(war_number) FROM maps)
maps_of_highest_war(v) ==
    {m \in v.maps : \A o \in v.maps : o.war_number <= m.war_number}

select_latest_maps(v) ==
    LET latest == select_latest_war(v)
        results == maps_of_highest_war(v)
    IN
    IF latest.exc # NoExc THEN Raise(latest.exc)
    \* latest_war, latest_war_fetched_on = None
    ELSE IF latest.val = None THEN Raise("TypeError")
    ELSE IF results = {} THEN Raise("NoDataReturnedException")
    ELSE IF \A m \in results : m.war_number < latest.val[1]
         THEN Raise("NoMapsForCurrentWarException")
    ELSE Ret(results)

\* ----------------------------------------------------------- labels.py
\* insert_label on a table whose key is the whole row
insert_label_whole_row(row, v) ==
    IF row \in v.labels
    THEN [exc |-> "IntegrityError", view |-> v]
    ELSE [exc |-> NoExc, view |-> [v EXCEPT !.labels = @ \cup {row}]]

\* insert_label: INSERT INTO labels VALUES (?, ?, ?, ?, ?), primary key
\* (map_name, war_number, label); no commit
insert_label_result(row, v) ==
    IF \E l \in v.labels : /\ l.map_name = row.map_name
                           /\ l.war_number = row.war_number
                           /\ l.label = row.label
    THEN [exc |-> "IntegrityError", view |-> v]
    ELSE [exc |-> NoExc, view |-> [v EXCEPT !.labels = @ \cup {row}]]

select_latest_labels_for_map(map_name, v) ==
    LET latest == select_latest_war(v) IN
    IF latest.exc # NoExc THEN Raise(latest.exc)
    ELSE IF latest.val = None THEN Raise("TypeError")
    ELSE LET results == {l \in v.labels : /\ l.map_name = map_name
                                          /\ l.war_number = latest.val[1]}
         IN IF results = {}
            THEN Raise("NoLabelsForMapInCurrentWarException")
            ELSE Ret(results)

\* ------------------------------------------------------- exceptions.py
\* MapDoesNotExistInCurrentWarException.__init__ is declared without
\* `self': constructing it with (map_name, last_known_war) passes three
\* positional arguments to a function of two, which raises TypeError.
MapDoesNotExistInCurrentWarException(map_name, last_known_war) ==
    Raise("TypeError")

\* ------------------------------------------------------------ icons.py
\* insert_icon: INSERT INTO icons VALUES (?, ?, ?, ?, ?, ?), primary key
\* (map_name, war_number, x, y); no commit
insert_icon_result(row, v) ==
    IF \E i \in v.icons : /\ i.map_name = row.map_name
                          /\ i.war_number = row.war_number
                          /\ i.x = row.x
                          /\ i.y = row.y
    THEN [exc |-> "IntegrityError", view |-> v]
    ELSE [exc |-> NoExc, view |-> [v EXCEPT !.icons = @ \cup {row}]]

get_latest_icons_for_map(map_name, v) ==
    LET latest == select_latest_war(v)
        latest_maps == select_latest_maps(v)
    IN
    IF latest.exc # NoExc THEN Raise(latest.exc)
    ELSE IF latest.val = None THEN Raise("TypeError")
    ELSE IF latest_maps.exc # NoExc THEN Raise(latest_maps.exc)
    ELSE IF map_name \notin {m.map_name : m \in latest_maps.val}
         THEN MapDoesNotExistInCurrentWarException(map_name, latest.val[1])
    ELSE Ret({i \in v.icons : /\ i.map_name = map_name
                              /\ i.war_number = latest.val[1]})

\* ---------------------------------------------------------- tickets.py
\* a value of an optional field (`str | None', `float | None') that is set
Some(x) == <<x>>

\* the Ticket drafts handed to insert_ticket: every subset of the four
\* origin fields may be set; destination and origin hexes as in
\* VALID_TICKETS
Tickets ==
    [war_number : StoredWarNumbers,
     destination_map_name : {"FoobarHex"},
     destination_x : {p[1] : p \in Points},
     destination_y : {p[2] : p \in Points},
     destination_description : Descriptions,
     origin_map_name : {None, Some("BarbazHex")},
     origin_x : {None} \cup {Some(p[1]) : p \in Points},
     origin_y : {None} \cup {Some(p[2]) : p \in Points},
     origin_description : {None} \cup {Some(d) : d \in Descriptions},
     objective_description : Descriptions,
     created_on : {0}]

\* a datetime bound to a `?' is stored by sqlite3's default adapter as
\* dt.isoformat(" ")
adapt_datetime(dt) == [iso_space |-> dt]

\* the exception class tickets.py imports from .exceptions for a map name
\* that no war has
MapDoesNotExistException == "MapDoesNotExistException"

\* _assert_war_is_real_and_current that takes an empty wars table for a
\* table whose newest war differs from every draft's
assert_war_is_newest(war_number, v) ==
    LET wars == {w.war_number : w \in v.wars} IN
    IF \A n \in wars : war_number # n \/ \E o \in wars : o > n
    THEN Raise("CannotCreateTicketForWarException")
    ELSE Ret(None)

\* _assert_war_is_real_and_current without the test for a future war
assert_war_is_not_past(war_number, v) ==
    LET wars == {w.war_number : w \in v.wars} IN
    IF wars = {} THEN Raise("NoDataReturnedException")
    ELSE IF \E o \in wars : war_number < o
         THEN Raise("CannotCreateTicketForWarException")
         ELSE Ret(None)

\* insert_ticket._assert_war_is_real_and_current
assert_war_is_real_and_current(war_number, v) ==
    LET wars == {w.war_number : w \in v.wars} IN
    IF wars = {} THEN Raise("NoDataReturnedException")
    ELSE LET newest_war == CHOOSE n \in wars : \A o \in wars : o <= n IN
         IF war_number < newest_war
         THEN Raise("CannotCreateTicketForWarException")
         ELSE IF war_number > newest_war
         THEN Raise("CannotCreateTicketForWarException")
         ELSE Ret(None)

\* _assert_map_is_real_and_current without the test of the war number
assert_map_name_is_real(map_name, war_number, v) ==
    IF map_name \notin {m.map_name : m \in v.maps}
    THEN Raise(MapDoesNotExistException)
    ELSE Ret(None)

\* insert_ticket._assert_map_is_real_and_current.  The one-argument call
\* MapDoesNotExistInCurrentWarException(message) binds the new object to
\* `map_name' and the message to `last_known_war', so it constructs.
assert_map_is_real_and_current(map_name, war_number, v) ==
    IF map_name \notin {m.map_name : m \in v.maps}
    THEN Raise(MapDoesNotExistException)
    ELSE IF [map_name |-> map_name, war_number |-> war_number] \notin v.maps
    THEN Raise("MapDoesNotExistInCurrentWarException")
    ELSE Ret(None)

\* has_valid_origin that looks at origin_map_name alone
has_origin_map(ticket) ==
    ticket.origin_map_name # None

\* has_valid_origin without the test of origin_description
has_origin_location(ticket) ==
    /\ ticket.origin_map_name # None
    /\ ticket.origin_x # None
    /\ ticket.origin_y # None

has_valid_origin(ticket) ==
    /\ ticket.origin_map_name # None
    /\ ticket.origin_x # None
    /\ ticket.origin_y # None
    /\ ticket.origin_description # None

\* a ticket number that restarts at 1 on every insert
lastrowid_restarted(v) == 1

\* ticket_number INTEGER NOT NULL PRIMARY KEY AUTOINCREMENT: one more than
\* the largest number ever stored (no code deletes a ticket)
lastrowid(v) ==
    LET numbers == {t.ticket_number : t \in v.tickets} IN
    IF numbers = {} THEN 1
    ELSE 1 + (CHOOSE n \in numbers : \A o \in numbers : o <= n)

\* the row of the INSERT INTO tickets that insert_ticket picks: the full
\* column list with a valid origin, otherwise the seven columns without
\* the origin, which sqlite fills with NULL
ticket_row(ticket, v) ==
    LET origin(x) == IF has_valid_origin(ticket) THEN x ELSE None IN
    [ticket_number |-> lastrowid(v),
     war_number |-> ticket.war_number,
     destination_map_name |-> ticket.destination_map_name,
     destination_x |-> ticket.destination_x,
     destination_y |-> ticket.destination_y,
     destination_description |-> ticket.destination_description,
     origin_map_name |-> origin(ticket.origin_map_name),
     origin_x |-> origin(ticket.origin_x),
     origin_y |-> origin(ticket.origin_y),
     origin_description |-> origin(ticket.origin_description),
     objective_description |-> ticket.objective_description,
     created_on |-> adapt_datetime(ticket.created_on)]

\* insert_ticket that checks the origin map before the destination map
insert_ticket_origin_first(ticket, v) ==
    LET war == assert_war_is_real_and_current(ticket.war_number, v)
        destination == assert_map_is_real_and_current(
                           ticket.destination_map_name, ticket.war_number, v)
        origin == IF has_valid_origin(ticket)
                  THEN assert_map_is_real_and_current(
                           ticket.origin_map_name[1], ticket.war_number, v)
                  ELSE Ret(None)
        fail(e) == [exc |-> e, val |-> None, view |-> v, commit |-> FALSE]
    IN
    IF war.exc # NoExc THEN fail(war.exc)
    ELSE IF origin.exc # NoExc THEN fail(origin.exc)
    ELSE IF destination.exc # NoExc THEN fail(destination.exc)
    ELSE [exc |-> NoExc, val |-> lastrowid(v),
          view |-> [v EXCEPT !.tickets = @ \cup {ticket_row(ticket, v)}],
          commit |-> TRUE]

\* insert_ticket that runs the INSERT without the three assertions
insert_ticket_unasserted(ticket, v) ==
    [exc |-> NoExc, val |-> lastrowid(v),
     view |-> [v EXCEPT !.tickets = @ \cup {ticket_row(ticket, v)}],
     commit |-> TRUE]

\* insert_ticket without the check of the origin map
insert_ticket_unchecked_origin(ticket, v) ==
    LET war == assert_war_is_real_and_current(ticket.war_number, v)
        destination == assert_map_is_real_and_current(
                           ticket.destination_map_name, ticket.war_number, v)
        fail(e) == [exc |-> e, val |-> None, view |-> v, commit |-> FALSE]
    IN
    IF war.exc # NoExc THEN fail(war.exc)
    ELSE IF destination.exc # NoExc THEN fail(destination.exc)
    ELSE [exc |-> NoExc, val |-> lastrowid(v),
          view |-> [v EXCEPT !.tickets = @ \cup {ticket_row(ticket, v)}],
          commit |-> TRUE]

\* insert_ticket: the outcome (val is the returned ticket id), the
\* connection's view after the call and whether conn.commit() was reached
insert_ticket_result(ticket, v) ==
    LET war == assert_war_is_real_and_current(ticket.war_number, v)
        destination == assert_map_is_real_and_current(
                           ticket.destination_map_name, ticket.war_number, v)
        origin == IF has_valid_origin(ticket)
                  THEN assert_map_is_real_and_current(
                           ticket.origin_map_name[1], ticket.war_number, v)
                  ELSE Ret(None)
        fail(e) == [exc |-> e, val |-> None, view |-> v, commit |-> FALSE]
    IN
    IF war.exc # NoExc THEN fail(war.exc)
    ELSE IF destination.exc # NoExc THEN fail(destination.exc)
    ELSE IF origin.exc # NoExc THEN fail(origin.exc)
    ELSE [exc |-> NoExc, val |-> lastrowid(v),
          view |-> [v EXCEPT !.tickets = @ \cup {ticket_row(ticket, v)}],
          commit |-> TRUE]

\* select_ticket whose query lacks the WHERE clause
select_any_ticket(ticket_number, v) ==
    LET results == v.tickets IN
    IF Cardinality(results) = 0 THEN Raise("UniqueRowNotFoundException")
    ELSE IF Cardinality(results) > 1 THEN Raise("MultipleUniqueRowsException")
    ELSE Raise(format_date_from_db((CHOOSE t \in results : TRUE).created_on).exc)

\* select_ticket: Ticket(*result[1:-1], DB.format_date_from_db(result[-1]))
select_ticket(ticket_number, v) ==
    LET results == {t \in v.tickets : t.ticket_number = ticket_number} IN
    IF Cardinality(results) = 0 THEN Raise("UniqueRowNotFoundException")
    ELSE IF Cardinality(results) > 1 THEN Raise("MultipleUniqueRowsException")
    ELSE LET result == CHOOSE t \in results : TRUE
             created_on == format_date_from_db(result.created_on)
         IN IF created_on.exc # NoExc THEN Raise(created_on.exc)
            ELSE Ret([war_number |-> result.war_number,
                      destination_map_name |-> result.destination_map_name,
                      destination_x |-> result.destination_x,
                      destination_y |-> result.destination_y,
                      destination_description |-> result.destination_description,
                      origin_map_name |-> result.origin_map_name,
                      origin_x |-> result.origin_x,
                      origin_y |-> result.origin_y,
                      origin_description |-> result.origin_description,
                      objective_description |-> result.objective_description,
                      created_on |-> created_on.val])

\* ---------------------------------------------------------- warAPI
\* str.lower() on the letters the label types are written with
UpperCase == <<"A", "B", "H", "I", "J", "M", "N", "O", "R", "T">>

LowerCase == <<"a", "b", "h", "i", "j", "m", "n", "o", "r", "t">>

lower(str) ==
    [i \in 1..Len(str) |->
        IF \E k \in 1..Len(UpperCase) : UpperCase[k] = str[i]
        THEN LowerCase[CHOOSE k \in 1..Len(UpperCase) : UpperCase[k] = str[i]]
        ELSE str[i]]

\* [(item["text"], item["x"], item["y"], item["mapMarkerType"])
\*  for item in results["mapTextItems"] if item["mapMarkerType"] == kind]
RECURSIVE items_of_kind(_, _)
items_of_kind(items, kinds) ==
    IF items = <<>> THEN <<>>
    ELSE LET item == Head(items)
             rest == items_of_kind(Tail(items), kinds)
         IN IF item.mapMarkerType \in kinds
            THEN << <<item.text, item.x, item.y, item.mapMarkerType>> >> \o rest
            ELSE rest

\* get_labels that filters nothing
get_labels_unfiltered(items, label_type) ==
    IF lower(label_type) \in {<<"m", "a", "j", "o", "r">>,
                              <<"m", "i", "n", "o", "r">>,
                              <<"b", "o", "t", "h">>}
    THEN Ret(items_of_kind(items, {"Major", "Minor"}))
    ELSE Raise("ValueError")

\* get_labels on a response whose mapTextItems are `items'
get_labels(items, label_type) ==
    IF lower(label_type) = <<"m", "a", "j", "o", "r">>
    THEN Ret(items_of_kind(items, {"Major"}))
    ELSE IF lower(label_type) = <<"m", "i", "n", "o", "r">>
    THEN Ret(items_of_kind(items, {"Minor"}))
    ELSE IF lower(label_type) = <<"b", "o", "t", "h">>
    THEN Ret(items_of_kind(items, {item.mapMarkerType : item \in
                                      {items[i] : i \in 1..Len(items)}}))
    ELSE Raise("ValueError")

\* ------------------------------------------------------------ users.py
\* class Role(Enum): a member has a name and a value
Role ==
    {[name |-> "TEAMSTER", value |-> "teamster"],
     [name |-> "SUPERVISOR", value |-> "supervisor"]}

\* class User(NamedTuple)
Users == [user_id : UserIds, guild : Guilds, role : Role]

\* Python values of two types that never compare equal
Str(s) == [str |-> s]

Tuple(t) == [tuple |-> t]

\* the key of the users relation: one row per (user_id, guild)
UsersKey(u) == <<u.user_id, u.guild>>

\* insert_or_update_user: INSERT INTO users VALUES (?, ?, ?) with
\* params (*user[0:2], user[2].name); no commit
insert_or_update_user_result(user, v) ==
    LET row == [user_id |-> user.user_id, guild |-> user.guild,
                role |-> Str(user.role.name)]
    IN
    IF \E o \in v.users : UsersKey(o) = UsersKey(row)
    THEN [exc |-> "IntegrityError", view |-> v]
    ELSE [exc |-> NoExc, view |-> [v EXCEPT !.users = @ \cup {row}]]

\* Role[key]: the member whose name is the string `key'
RoleNamed(key) ==
    IF \E r \in Role : Str(r.name) = key
    THEN Ret(CHOOSE r \in Role : Str(r.name) = key)
    ELSE Raise("KeyError")

\* select_user_role: SELECT role FROM users WHERE user_id = ? AND guild = ?;
\* fetchall() gives one tuple per row and Role[results[0]] looks up the
\* first of them
select_user_role(user_id, guild, v) ==
    LET results == {Tuple(<<u.role>>) :
                       u \in {o \in v.users : /\ o.user_id = user_id
                                              /\ o.guild = guild}}
    IN
    IF Cardinality(results) = 0 THEN Raise("UniqueRowNotFoundException")
    ELSE RoleNamed(CHOOSE row \in results : TRUE)

\* ------------------------------------------- initialization: schema
\* DB.generate_db hands the whole schema, several statements, to one
\* cursor.execute, which sqlite3 refuses: "You can only execute one
\* statement at a time".
generate_db == Raise("ProgrammingError")

\* --------------------------------------------------- caller's connection
RowCount(v) ==
    Cardinality(v.maps) + Cardinality(v.labels) + Cardinality(v.icons)

Idle == sync.pc = "idle"

\* the record of a sync_war call is kept until the next operation
NoSync == [pc |-> "idle", war_number |-> 0, hexes |-> <<>>,
           pre |-> EmptyTables, inserted |-> FALSE, retry |-> {}]

Done(op, arg, r) ==
    /\ last' = [op |-> op, arg |-> arg, exc |-> r.exc, val |-> r.val,
                pre |-> view]
    /\ sync' = NoSync

\* a direct call adds a row only while the row budget lasts; a call that
\* raises is always possible
Within(r) == r.exc # NoExc \/ RowCount(view) < MaxRows

Init ==
    /\ disk = EmptyTables
    /\ view = EmptyTables
    /\ last = [op |-> "init", arg |-> None, exc |-> NoExc, val |-> None,
               pre |-> EmptyTables]
    /\ sync = NoSync

insert_war ==
    /\ Idle
    /\ \E n \in WarNumbers, t \in Times :
        LET r == insert_war_result(n, t, view) IN
        /\ view' = r.view
        /\ disk' = IF r.commit THEN r.view ELSE disk
        /\ Done("insert_war", <<n, t>>, [exc |-> r.exc, val |-> None])

insert_map ==
    /\ Idle
    /\ \E m \in MapNames, n \in StoredWarNumbers :
        LET r == insert_map_result(m, n, view) IN
        /\ Within(r)
        /\ view' = r.view
        /\ Done("insert_map", <<m, n>>, [exc |-> r.exc, val |-> None])
    /\ UNCHANGED disk

insert_label ==
    /\ Idle
    /\ \E m \in MapNames, n \in StoredWarNumbers, t \in LabelTexts, p \in Points :
        LET row == [map_name |-> m, war_number |-> n, label |-> t,
                    x |-> p[1], y |-> p[2]]
            r == insert_label_result(row, view)
        IN
        /\ Within(r)
        /\ view' = r.view
        /\ Done("insert_label", row, [exc |-> r.exc, val |-> None])
    /\ UNCHANGED disk

insert_icon ==
    /\ Idle
    /\ \E m \in MapNames, n \in StoredWarNumbers, p \in Points,
          k \in IconTypes, f \in FlagMasks :
        LET row == [map_name |-> m, war_number |-> n, x |-> p[1], y |-> p[2],
                    icon_type |-> k, flags |-> f]
            r == insert_icon_result(row, view)
        IN
        /\ Within(r)
        /\ view' = r.view
        /\ Done("insert_icon", row, [exc |-> r.exc, val |-> None])
    /\ UNCHANGED disk

\* conn.commit() by the caller of the storage functions
commit ==
    /\ Idle
    /\ disk # view
    /\ disk' = view
    /\ Done("commit", None, Ret(None))
    /\ UNCHANGED view

\* the caller drops the connection without committing and takes a new one
\* from DB.get_connection(): the open transaction is lost
get_connection ==
    /\ Idle
    /\ disk # view
    /\ view' = disk
    /\ Done("get_connection", None, Ret(None))
    /\ UNCHANGED disk

latest_war ==
    /\ Idle
    /\ Done("select_latest_war", None, select_latest_war(view))
    /\ UNCHANGED <<disk, view>>

latest_maps ==
    /\ Idle
    /\ Done("select_latest_maps", None, select_latest_maps(view))
    /\ UNCHANGED <<disk, view>>

latest_labels_for_map ==
    /\ Idle
    /\ \E m \in MapNames :
        Done("select_latest_labels_for_map", m,
             select_latest_labels_for_map(m, view))
    /\ UNCHANGED <<disk, view>>

latest_icons_for_map ==
    /\ Idle
    /\ \E m \in MapNames :
        Done("get_latest_icons_for_map", m, get_latest_icons_for_map(m, view))
    /\ UNCHANGED <<disk, view>>

insert_ticket ==
    /\ Idle
    /\ \E ticket \in Tickets :
        LET r == insert_ticket_result(ticket, view) IN
        /\ r.exc # NoExc \/ Cardinality(view.tickets) < MaxTickets
        /\ view' = r.view
        /\ disk' = IF r.commit THEN r.view ELSE disk
        /\ Done("insert_ticket", ticket, [exc |-> r.exc, val |-> r.val])

\* insert_ticket for the drafts that give no origin field
DestinationTickets ==
    {t \in Tickets : /\ t.origin_map_name = None
                     /\ t.origin_x = None
                     /\ t.origin_y = None
                     /\ t.origin_description = None}

insert_destination_ticket ==
    /\ Idle
    /\ \E ticket \in DestinationTickets :
        LET r == insert_ticket_result(ticket, view) IN
        /\ r.exc # NoExc \/ Cardinality(view.tickets) < MaxTickets
        /\ view' = r.view
        /\ disk' = IF r.commit THEN r.view ELSE disk
        /\ Done("insert_ticket", ticket, [exc |-> r.exc, val |-> r.val])

get_ticket ==
    /\ Idle
    /\ \E n \in TicketNumbers :
        Done("select_ticket", n, select_ticket(n, view))
    /\ UNCHANGED <<disk, view>>

insert_or_update_user ==
    /\ Idle
    /\ \E user \in Users :
        LET r == insert_or_update_user_result(user, view) IN
        /\ view' = r.view
        /\ Done("insert_or_update_user", user, [exc |-> r.exc, val |-> None])
    /\ UNCHANGED disk

user_role ==
    /\ Idle
    /\ \E user_id \in UserIds, guild \in Guilds :
        Done("select_user_role", <<user_id, guild>>,
             select_user_role(user_id, guild, view))
    /\ UNCHANGED <<disk, view>>

\* a get_labels call whose request is answered with `items'
fetch_labels ==
    /\ Idle
    /\ \E n \in 0..MaxItems :
        \E items \in [1..n -> MapTextItems], label_type \in LabelTypes :
            Done("get_labels", <<items, label_type>>,
                 get_labels(items, label_type))
    /\ UNCHANGED <<disk, view>>

\* execute_cold_start: generate_db raises before sync_war (line 29) and
\* conn.commit() (line 32) are reached; nothing catches the exception
execute_cold_start ==
    /\ Idle
    /\ generate_db.exc # NoExc
    /\ Done("execute_cold_start", None, generate_db)
    /\ UNCHANGED <<disk, view>>

\* ---------------------------------------------- initialization.sync_war
\* labels of one hex as sync_war builds them:
\* Label(map_.map_name, map_.war_number, *label_tuple[:3])
SyncLabels(map_name, war_number) ==
    LET items == ApiTextItems(map_name) IN
    [i \in 1..Len(items) |->
        [map_name |-> map_name, war_number |-> war_number,
         label |-> items[i][1], x |-> items[i][2], y |-> items[i][3]]]

\* icons of one hex as sync_war builds them:
\* Icon(map_.map_name, map_.war_number, *icon_tuple)
SyncIcons(map_name, war_number) ==
    LET items == ApiMapItems(map_name) IN
    [i \in 1..Len(items) |->
        [map_name |-> map_name, war_number |-> war_number,
         x |-> items[i][1], y |-> items[i][2],
         icon_type |-> items[i][3], flags |-> items[i][4]]]

\* for label in labels: db.labels.insert_label(*label, conn)
\* -- stops at the first insert that raises, keeping the earlier ones
RECURSIVE insert_labels(_, _)
insert_labels(rows, v) ==
    IF rows = <<>> THEN [exc |-> NoExc, view |-> v]
    ELSE LET r == insert_label_result(Head(rows), v) IN
         IF r.exc # NoExc THEN r ELSE insert_labels(Tail(rows), r.view)

\* for icon in icons: db.icons.insert_icon(*icon, conn)
RECURSIVE insert_icons(_, _)
insert_icons(rows, v) ==
    IF rows = <<>> THEN [exc |-> NoExc, view |-> v]
    ELSE LET r == insert_icon_result(Head(rows), v) IN
         IF r.exc # NoExc THEN r ELSE insert_icons(Tail(rows), r.view)

\* sync_war leaves by return or by an exception that nothing catches;
\* neither path rolls back or commits
SyncLeave(exc) ==
    /\ last' = [op |-> "sync_war", arg |-> sync'.war_number, exc |-> exc,
                val |-> None, pre |-> sync'.pre]
    /\ sync'.pc = "idle"

\* lines 49-66: get_war, select_latest_war, the newer-war test, insert_war
sync_war_begin ==
    /\ Idle
    /\ \E answered \in BOOLEAN :
        LET raise(call, e) == /\ sync' = call
                              /\ SyncLeave(e)
                              /\ UNCHANGED <<disk, view>>
        IN
        IF ~answered
        THEN raise([NoSync EXCEPT !.pre = view], "ConnectionError")
        ELSE \E n \in StoredWarNumbers, t \in Times :
            LET latest_war_in_db == select_latest_war(view)
                r == insert_war_result(n, t, view)
                retry == IF /\ last.op = "sync_war"
                            /\ last.exc # NoExc
                            /\ sync.inserted
                            /\ sync.war_number = n
                         THEN {sync.pre} ELSE {}
                call == [NoSync EXCEPT !.war_number = n, !.pre = view,
                                       !.retry = retry]
            IN
            IF latest_war_in_db.exc # NoExc
            THEN raise(call, latest_war_in_db.exc)
            \* latest_war_in_db is a plain tuple: it has no .war_number
            ELSE IF latest_war_in_db.val # None
            THEN raise(call, "AttributeError")
            ELSE IF r.exc # NoExc THEN raise(call, r.exc)
            ELSE /\ view' = r.view
                 /\ disk' = r.view
                 /\ sync' = [call EXCEPT !.pc = "get_maps", !.inserted = TRUE]
                 /\ UNCHANGED last

\* lines 68-70: api.get_maps()
sync_war_get_maps ==
    /\ sync.pc = "get_maps"
    /\ \E answered \in BOOLEAN :
        IF ~answered
        THEN /\ sync' = [sync EXCEPT !.pc = "idle"]
             /\ SyncLeave("ConnectionError")
        ELSE /\ sync' = [sync EXCEPT !.pc = "insert_map", !.hexes = ApiHexes]
             /\ UNCHANGED last
    /\ UNCHANGED <<disk, view>>

\* lines 73-76: the loop test, insert_map and conn.commit() for one hex;
\* falling off the loop returns
sync_war_insert_map ==
    /\ sync.pc = "insert_map"
    /\ IF sync.hexes = <<>>
       THEN /\ sync' = [sync EXCEPT !.pc = "idle"]
            /\ SyncLeave(NoExc)
            /\ UNCHANGED <<disk, view>>
       ELSE LET r == insert_map_result(Head(sync.hexes), sync.war_number, view) IN
            IF r.exc # NoExc
            THEN /\ sync' = [sync EXCEPT !.pc = "idle"]
                 /\ SyncLeave(r.exc)
                 /\ UNCHANGED <<disk, view>>
            ELSE /\ view' = r.view
                 /\ disk' = r.view
                 /\ sync' = [sync EXCEPT !.pc = "get_labels"]
                 /\ UNCHANGED last

\* lines 78-91: api.get_labels(label_type="Both"), the label inserts and
\* conn.commit()
sync_war_labels ==
    /\ sync.pc = "get_labels"
    /\ \E answered \in BOOLEAN :
        LET r == insert_labels(SyncLabels(Head(sync.hexes), sync.war_number), view) IN
        IF ~answered
        THEN /\ sync' = [sync EXCEPT !.pc = "idle"]
             /\ SyncLeave("ConnectionError")
             /\ UNCHANGED <<disk, view>>
        ELSE IF r.exc # NoExc
        THEN /\ sync' = [sync EXCEPT !.pc = "idle"]
             /\ SyncLeave(r.exc)
             /\ view' = r.view
             /\ UNCHANGED disk
        ELSE /\ view' = r.view
             /\ disk' = r.view
             /\ sync' = [sync EXCEPT !.pc = "get_icons"]
             /\ UNCHANGED last

\* lines 93-104: api.get_icons() and the icon inserts (not committed here)
sync_war_icons ==
    /\ sync.pc = "get_icons"
    /\ \E answered \in BOOLEAN :
        LET r == insert_icons(SyncIcons(Head(sync.hexes), sync.war_number), view) IN
        IF ~answered
        THEN /\ sync' = [sync EXCEPT !.pc = "idle"]
             /\ SyncLeave("ConnectionError")
             /\ UNCHANGED <<disk, view>>
        ELSE IF r.exc # NoExc
        THEN /\ sync' = [sync EXCEPT !.pc = "idle"]
             /\ SyncLeave(r.exc)
             /\ view' = r.view
             /\ UNCHANGED disk
        ELSE /\ view' = r.view
             /\ sync' = [sync EXCEPT !.pc = "insert_map", !.hexes = Tail(@)]
             /\ UNCHANGED <<disk, last>>

Next ==
    \/ insert_war
    \/ insert_map
    \/ insert_label
    \/ insert_icon
    \/ commit
    \/ get_connection
    \/ latest_war
    \/ latest_maps
    \/ latest_labels_for_map
    \/ latest_icons_for_map
    \/ sync_war_begin
    \/ sync_war_get_maps
    \/ sync_war_insert_map
    \/ sync_war_labels
    \/ sync_war_icons
    \/ execute_cold_start

Spec == Init /\ [][Next]_vars

\* the ticket operations on every store that insert_war (once, on the
\* empty wars table) and insert_map calls followed by a commit produce
TicketInit ==
    /\ \E wars \in {{}} \cup
                   {{[war_number |-> n,
                      last_fetched_on |-> format_date_for_db(t)]} :
                        n \in StoredWarNumbers, t \in Times},
          maps \in SUBSET [map_name : MapNames, war_number : StoredWarNumbers] :
        /\ Cardinality(maps) <= MaxMaps
        /\ view = [EmptyTables EXCEPT !.wars = wars, !.maps = maps]
    /\ disk = view
    /\ last = [op |-> "init", arg |-> None, exc |-> NoExc, val |-> None,
               pre |-> view]
    /\ sync = NoSync

TicketNext ==
    \/ insert_ticket
    \/ get_ticket

TicketSpec == TicketInit /\ [][TicketNext]_vars

\* the war operations on every store that holds no war or one war, the
\* war fetched at any of the times StoredTimes
StoredTimes == 0..(MaxTime + 1)

WarInit ==
    /\ \E wars \in {{}} \cup
                   {{[war_number |-> n,
                      last_fetched_on |-> format_date_for_db(t)]} :
                        n \in StoredWarNumbers, t \in StoredTimes} :
        view = [EmptyTables EXCEPT !.wars = wars]
    /\ disk = view
    /\ last = [op |-> "init", arg |-> None, exc |-> NoExc, val |-> None,
               pre |-> view]
    /\ sync = NoSync

WarNext ==
    \/ insert_war
    \/ commit
    \/ get_connection
    \/ sync_war_begin
    \/ sync_war_get_maps
    \/ sync_war_insert_map
    \/ sync_war_labels
    \/ sync_war_icons

WarSpec == WarInit /\ [][WarNext]_vars

\* the user operations of one connection on the empty store
UserNext ==
    \/ insert_or_update_user
    \/ user_role
    \/ commit
    \/ get_connection

UserSpec == Init /\ [][UserNext]_vars

\* the calls of get_labels, on every response and label type
LabelNext == fetch_labels

LabelSpec == Init /\ [][LabelNext]_vars

\* a war sync, ticket inserts and reads of the latest war's data on every
\* committed store that holds no war yet and at most one Map row, of any
\* war
TransitionInit ==
    /\ \E maps \in {{}} \cup
                   {{[map_name |-> m, war_number |-> n]} :
                        m \in MapNames, n \in StoredWarNumbers} :
        view = [EmptyTables EXCEPT !.maps = maps]
    /\ disk = view
    /\ last = [op |-> "init", arg |-> None, exc |-> NoExc, val |-> None,
               pre |-> view]
    /\ sync = NoSync

TransitionNext ==
    \/ sync_war_begin
    \/ sync_war_get_maps
    \/ sync_war_insert_map
    \/ sync_war_labels
    \/ sync_war_icons
    \/ insert_destination_ticket
    \/ latest_maps
    \/ latest_labels_for_map
    \/ latest_icons_for_map

TransitionSpec == TransitionInit /\ [][TransitionNext]_vars

\* ---------------------------------------------------------------- claims
WarNumbersOf(v) == {w.war_number : w \in v.wars}

MaxWarNumber(v) == CHOOSE n \in WarNumbersOf(v) : \A o \in WarNumbersOf(v) : o <= n

\* the rows of a relation that belong to the latest war of the wars table
MapsOfLatestWar(v) == {m \in v.maps : m.war_number = MaxWarNumber(v)}

\* what a complete ingestion of war n adds to the tables `pre'
IngestedMaps(pre, n) ==
    pre.maps \cup {[map_name |-> ApiHexes[i], war_number |-> n] : i \in 1..Len(ApiHexes)}

IngestedLabels(pre, n) ==
    pre.labels \cup UNION {{SyncLabels(ApiHexes[i], n)[j] :
                               j \in 1..Len(ApiTextItems(ApiHexes[i]))} :
                           i \in 1..Len(ApiHexes)}

IngestedIcons(pre, n) ==
    pre.icons \cup UNION {{SyncIcons(ApiHexes[i], n)[j] :
                              j \in 1..Len(ApiMapItems(ApiHexes[i]))} :
                          i \in 1..Len(ApiHexes)}

\* the operation `op' has just completed: `last' describes it and `view' is
\* the connection's view it left
After(op) == Idle /\ last.op = op

\* C1: whenever sync_war fails after it has inserted the new War row, the
\* tables visible afterwards equal the tables before the call (no War, Map,
\* Label or Icon row of the attempt remains).
C1_AllOrNothingSync ==
    (After("sync_war") /\ last.exc # NoExc /\ sync.inserted)
        => (view = last.pre /\ WarNumbersOf(disk) = WarNumbersOf(last.pre))

\* C2: a sync_war call that retries a part-way failed attempt for the same
\* war W, and whose fetches are all answered, returns normally and leaves
\* the War row of W, one Map row per hex and every label and icon, as if the
\* failed attempt had never happened.
C2_IdempotentRetry ==
    (After("sync_war") /\ sync.retry # {} /\ last.exc # "ConnectionError")
        => /\ last.exc = NoExc
           /\ \A pre \in sync.retry :
                /\ WarNumbersOf(view) = WarNumbersOf(pre) \cup {sync.war_number}
                /\ view.maps = IngestedMaps(pre, sync.war_number)
                /\ view.labels = IngestedLabels(pre, sync.war_number)
                /\ view.icons = IngestedIcons(pre, sync.war_number)

\* C3: every War row that a step stores (by insert_war, directly or inside
\* sync_war) has a war number strictly greater than every war number stored
\* before the step, and an insert_war whose number is less than or equal to
\* the stored maximum fails and stores nothing.
C3_MonotonicWarOrdering ==
    [][/\ \A w \in view'.wars \ view.wars :
            \A o \in view.wars : o.war_number < w.war_number
       /\ (/\ Idle'
           /\ last'.op = "insert_war"
           /\ view.wars # {}
           /\ last'.arg[1] <= MaxWarNumber(view))
              => (last'.exc # NoExc /\ view' = view /\ disk' = disk)]_vars

\* C3 witness: with a war stored, an insert_war of a lower, valid war number
\* was rejected and stored nothing.
C3_Witness ==
    /\ After("insert_war")
    /\ last.pre.wars # {}
    /\ last.arg[1] >= 0
    /\ last.arg[1] < MaxWarNumber(last.pre)
    /\ last.exc # NoExc
    /\ view.wars = last.pre.wars

\* C4: on a wars table with maximum M, insert_war(M) fails with
\* AlreadyExists, insert_war(n) with 0 <= n < M fails with StaleWar, and
\* insert_war(n) with n > M succeeds and makes n the latest war.
C4_InsertWarErrorKinds ==
    (After("insert_war") /\ last.pre.wars # {}) =>
        LET M == MaxWarNumber(last.pre)
            n == last.arg[1]
        IN /\ n = M => last.exc = "UniqueRowAlreadyExistsException"
           /\ (0 <= n /\ n < M) => last.exc = "NewerWarAlreadyExistsException"
           /\ n > M => (last.exc = NoExc /\ MaxWarNumber(view) = n)

\* C5: insert_war with a negative war number fails with InvalidArgument and
\* leaves the tables unchanged, and an insert_war of a valid newer number
\* that follows it succeeds.
C5_NegativeWarNumber ==
    [][(After("insert_war") /\ last.arg[1] < 0) =>
          /\ last.exc = "ValueError"
          /\ view = last.pre
          /\ (/\ Idle'
              /\ last'.op = "insert_war"
              /\ last'.arg[1] >= 0
              /\ \A w \in view.wars : w.war_number < last'.arg[1])
                 => last'.exc = NoExc]_vars

\* C6: latest_war() returns None on an empty wars table and otherwise the
\* row of the maximum war number together with the observed_at it was
\* inserted with.
C6_LatestWar ==
    After("select_latest_war") =>
        /\ last.exc = NoExc
        /\ IF view.wars = {} THEN last.val = None
           ELSE /\ last.val # None
                /\ [war_number |-> last.val[1],
                    last_fetched_on |-> format_date_for_db(last.val[2])]
                       \in view.wars
                /\ last.val[1] = MaxWarNumber(view)

\* C7: whenever Map rows of the latest war are stored, latest_maps() returns
\* a result, and every result it returns is exactly the set of Map rows whose
\* war_number is the maximum war_number of the wars table.
C7_LatestMapsScoping ==
    (After("select_latest_maps") /\ view.wars # {}) =>
        /\ MapsOfLatestWar(view) # {} => last.exc = NoExc
        /\ last.exc = NoExc => last.val = MapsOfLatestWar(view)

\* C8: latest_maps() fails with NoData whenever the maps table is empty
\* (with or without wars) and with StaleData whenever map rows exist but
\* none belongs to the latest war.
C8_LatestMapsErrors ==
    After("select_latest_maps") =>
        /\ view.maps = {} => last.exc = "NoDataReturnedException"
        /\ (view.maps # {} /\ view.wars # {} /\ MapsOfLatestWar(view) = {})
              => last.exc = "NoMapsForCurrentWarException"

\* C9: latest_labels_for_map(m) returns exactly the Label rows of m in the
\* latest war, and fails with NotFound when there are none.
C9_LatestLabelsForMap ==
    (After("select_latest_labels_for_map") /\ view.wars # {}) =>
        LET rows == {l \in view.labels : /\ l.map_name = last.arg
                                         /\ l.war_number = MaxWarNumber(view)}
        IN IF rows = {}
           THEN last.exc = "NoLabelsForMapInCurrentWarException"
           ELSE last.exc = NoExc /\ last.val = rows

\* C10: for a map that has a Map row in the latest war,
\* latest_icons_for_map(m) returns exactly the Icon rows of m in the latest
\* war.
C10_LatestIconsForMap ==
    (/\ After("get_latest_icons_for_map")
     /\ view.wars # {}
     /\ \E m \in MapsOfLatestWar(view) : m.map_name = last.arg) =>
        /\ last.exc = NoExc
        /\ last.val = {i \in view.icons : /\ i.map_name = last.arg
                                          /\ i.war_number = MaxWarNumber(view)}

\* C11: latest_icons_for_map(m) fails with NoData when the maps table is
\* empty and with MapNotInCurrentWar when the latest war has maps but m is
\* not among them.
C11_LatestIconsErrors ==
    After("get_latest_icons_for_map") =>
        /\ view.maps = {} => last.exc = "NoDataReturnedException"
        /\ (/\ view.wars # {}
            /\ MapsOfLatestWar(view) # {}
            /\ last.arg \notin {m.map_name : m \in MapsOfLatestWar(view)})
              => last.exc = "MapDoesNotExistInCurrentWarException"

\* ------------------------------------------------------ ticket claims
MapRow(map_name, war_number) ==
    [map_name |-> map_name, war_number |-> war_number]

\* how many of the four origin fields of a draft or a stored ticket are set
OriginFieldsSet(t) ==
    Len(t.origin_map_name) + Len(t.origin_x) + Len(t.origin_y)
        + Len(t.origin_description)

\* the stored ticket with the given number
TicketsNumbered(n, v) == {t \in v.tickets : t.ticket_number = n}

\* insert_ticket has just completed on a store with a war on record, for a
\* draft of the latest war
AfterCurrentWarDraft ==
    /\ After("insert_ticket")
    /\ last.pre.wars # {}
    /\ last.arg.war_number = MaxWarNumber(last.pre)

DestinationIsMapped ==
    MapRow(last.arg.destination_map_name, last.arg.war_number) \in last.pre.maps

OriginIsMapped ==
    MapRow(last.arg.origin_map_name[1], last.arg.war_number) \in last.pre.maps

\* the ticket the call returned is new and carries the draft's war and
\* destination
StoredNewTicket ==
    /\ last.exc = NoExc
    /\ TicketsNumbered(last.val, last.pre) = {}
    /\ \E t \in TicketsNumbered(last.val, view) :
        /\ view.tickets = last.pre.tickets \cup {t}
        /\ t.war_number = last.arg.war_number
        /\ t.destination_map_name = last.arg.destination_map_name
        /\ t.destination_x = last.arg.destination_x
        /\ t.destination_y = last.arg.destination_y

\* C12: insert_ticket fails with CannotCreateTicketForWar and stores no
\* ticket for every draft whose war_number is below or above the latest war
\* number, and succeeds for a draft of the latest war whose destination map
\* (and origin map, when a full origin is given) exists in that war.
C12_TicketWarBinding ==
    (After("insert_ticket") /\ last.pre.wars # {}) =>
        /\ last.arg.war_number # MaxWarNumber(last.pre)
              => /\ last.exc = "CannotCreateTicketForWarException"
                 /\ view = last.pre
                 /\ disk.tickets = last.pre.tickets
        /\ (/\ last.arg.war_number = MaxWarNumber(last.pre)
            /\ DestinationIsMapped
            /\ OriginFieldsSet(last.arg) = 4 => OriginIsMapped)
              => StoredNewTicket

\* C12 witness: a draft of a war other than the latest one, whose
\* destination is a Map row of the draft's war, was rejected.
C12_Witness ==
    /\ After("insert_ticket")
    /\ last.pre.wars # {}
    /\ last.arg.war_number > MaxWarNumber(last.pre)
    /\ DestinationIsMapped
    /\ last.exc = "CannotCreateTicketForWarException"
    /\ view.tickets = last.pre.tickets

\* C13 as claimed: a draft of the latest war whose destination is not a Map
\* row under the draft's war is rejected with MapNotFound
\* (MapDoesNotExistException) and no ticket is stored, also when the name
\* exists under another war.
C13_DestinationMapNotFound ==
    (AfterCurrentWarDraft /\ ~DestinationIsMapped) =>
        /\ last.exc = MapDoesNotExistException
        /\ view = last.pre

\* C13 amended: such a draft is rejected and no ticket is stored; the error
\* is MapDoesNotExistException when no war has the name and
\* MapDoesNotExistInCurrentWarException when only another war has it.
C13_DestinationMapRejected ==
    (AfterCurrentWarDraft /\ ~DestinationIsMapped) =>
        /\ view = last.pre
        /\ disk.tickets = last.pre.tickets
        /\ last.exc =
             IF \E m \in last.pre.maps :
                    m.map_name = last.arg.destination_map_name
             THEN "MapDoesNotExistInCurrentWarException"
             ELSE MapDoesNotExistException

\* C13 witness: the destination name exists only under an older war and the
\* draft was rejected.
C13_Witness ==
    /\ AfterCurrentWarDraft
    /\ ~DestinationIsMapped
    /\ \E m \in last.pre.maps : m.map_name = last.arg.destination_map_name
    /\ last.exc = "MapDoesNotExistInCurrentWarException"
    /\ view.tickets = last.pre.tickets

\* C14: a draft of the latest war with a mapped destination and exactly 1,
\* 2 or 3 of the origin fields set is accepted and stored with all four
\* origin fields absent, and no stored ticket has between 1 and 3 origin
\* fields.
C14_OriginAllOrNothing ==
    /\ \A t \in view.tickets : OriginFieldsSet(t) \in {0, 4}
    /\ (/\ AfterCurrentWarDraft
        /\ DestinationIsMapped
        /\ OriginFieldsSet(last.arg) \in 1..3)
          => /\ StoredNewTicket
             /\ \A t \in TicketsNumbered(last.val, view) : OriginFieldsSet(t) = 0

\* C14 witness: a draft with three origin fields set, among them the name
\* of a hex that is no Map row, was stored without origin.
C14_Witness ==
    /\ AfterCurrentWarDraft
    /\ OriginFieldsSet(last.arg) = 3
    /\ last.arg.origin_map_name # None
    /\ last.exc = NoExc
    /\ \E t \in TicketsNumbered(last.val, view) : OriginFieldsSet(t) = 0

\* C15 as claimed: a draft of the latest war with a mapped destination and
\* all four origin fields, whose origin map is not a Map row under the
\* draft's war, is rejected with MapNotFound (MapDoesNotExistException) and
\* no ticket is stored.
C15_OriginMapNotFound ==
    (/\ AfterCurrentWarDraft
     /\ DestinationIsMapped
     /\ OriginFieldsSet(last.arg) = 4
     /\ ~OriginIsMapped)
        => /\ last.exc = MapDoesNotExistException
           /\ view = last.pre

\* C15 amended: such a draft is rejected and no ticket is stored; the error
\* is MapDoesNotExistException when no war has the origin name and
\* MapDoesNotExistInCurrentWarException when only another war has it.
C15_OriginMapRejected ==
    (/\ AfterCurrentWarDraft
     /\ DestinationIsMapped
     /\ OriginFieldsSet(last.arg) = 4
     /\ ~OriginIsMapped)
        => /\ view = last.pre
           /\ disk.tickets = last.pre.tickets
           /\ last.exc =
                IF \E m \in last.pre.maps :
                       m.map_name = last.arg.origin_map_name[1]
                THEN "MapDoesNotExistInCurrentWarException"
                ELSE MapDoesNotExistException

\* C15 witness: destination mapped, full origin whose hex exists only under
\* another war, draft rejected.
C15_Witness ==
    /\ AfterCurrentWarDraft
    /\ DestinationIsMapped
    /\ OriginFieldsSet(last.arg) = 4
    /\ ~OriginIsMapped
    /\ \E m \in last.pre.maps : m.map_name = last.arg.origin_map_name[1]
    /\ last.exc = "MapDoesNotExistInCurrentWarException"
    /\ view.tickets = last.pre.tickets

\* C16: the ticket stored for an accepted draft carries the draft's fields
\* (the origin when all four origin fields were given, no origin otherwise),
\* and select_ticket of a stored ticket's id returns that ticket with the
\* created_on it was inserted with.
C16_TicketRoundTrip ==
    /\ (After("insert_ticket") /\ last.exc = NoExc) =>
          \E t \in TicketsNumbered(last.val, view) :
            /\ t.war_number = last.arg.war_number
            /\ t.destination_map_name = last.arg.destination_map_name
            /\ t.objective_description = last.arg.objective_description
            /\ t.created_on = adapt_datetime(last.arg.created_on)
            /\ IF OriginFieldsSet(last.arg) = 4
               THEN /\ t.origin_map_name = last.arg.origin_map_name
                    /\ t.origin_x = last.arg.origin_x
                    /\ t.origin_y = last.arg.origin_y
                    /\ t.origin_description = last.arg.origin_description
               ELSE OriginFieldsSet(t) = 0
    /\ (After("select_ticket") /\ TicketsNumbered(last.arg, view) # {}) =>
          /\ last.exc = NoExc
          /\ \E t \in TicketsNumbered(last.arg, view) :
                /\ last.val.war_number = t.war_number
                /\ last.val.destination_map_name = t.destination_map_name
                /\ last.val.origin_map_name = t.origin_map_name
                /\ last.val.objective_description = t.objective_description
                /\ adapt_datetime(last.val.created_on) = t.created_on

\* C17: select_ticket of an id that no stored ticket has fails with NotFound
\* (UniqueRowNotFoundException) and changes nothing.
C17_SelectTicketNotFound ==
    (After("select_ticket") /\ TicketsNumbered(last.arg, view) = {}) =>
        /\ last.exc = "UniqueRowNotFoundException"
        /\ view = last.pre
        /\ disk = last.pre

\* C17 witness: with a ticket stored, select_ticket of another id failed
\* with NotFound.
C17_Witness ==
    /\ After("select_ticket")
    /\ view.tickets # {}
    /\ TicketsNumbered(last.arg, view) = {}
    /\ last.exc = "UniqueRowNotFoundException"

\* C18: when the store has a latest war L and the source reports a war
\* number <= L, sync_war returns without error, inserts nothing and leaves
\* every table unchanged.
C18_SyncNoOp ==
    (/\ After("sync_war")
     /\ last.exc # "ConnectionError"
     /\ last.pre.wars # {}
     /\ last.arg <= MaxWarNumber(last.pre))
        => /\ last.exc = NoExc
           /\ ~sync.inserted
           /\ view = last.pre

\* C19: when the store has no war, or the source reports a war number above
\* the stored latest, and every fetch is answered and no insert is rejected,
\* sync_war returns and the store holds the War row, one Map row per hex and
\* every label and icon of the source under that war.
C19_SyncIngestsWar ==
    (/\ After("sync_war")
     /\ last.exc \notin {"ConnectionError", "IntegrityError"}
     /\ \A w \in last.pre.wars : w.war_number < last.arg)
        => /\ last.exc = NoExc
           /\ MaxWarNumber(view) = last.arg
           /\ view.maps = IngestedMaps(last.pre, last.arg)
           /\ view.labels = IngestedLabels(last.pre, last.arg)
           /\ view.icons = IngestedIcons(last.pre, last.arg)

\* C20: execute_cold_start on a store that already holds a war returns
\* without error and leaves every table as it was.
C20_ColdStartIdempotent ==
    (After("execute_cold_start") /\ last.pre.wars # {}) =>
        /\ last.exc = NoExc
        /\ view = last.pre

\* a store holds the complete war n: one Map row per hex the data source
\* lists, with every label and every icon of each hex
CompleteWar(v, n) ==
    /\ IngestedMaps(EmptyTables, n) \subseteq v.maps
    /\ IngestedLabels(EmptyTables, n) \subseteq v.labels
    /\ IngestedIcons(EmptyTables, n) \subseteq v.icons

\* C21: at every step of a running sync_war for war W, after the War row
\* insert, a reader of the committed tables whose latest war is W finds the
\* complete war W: every map, label and icon of W.
C21_ReadConsistency ==
    (~Idle /\ sync.inserted /\ MaxWarNumber(disk) = sync.war_number)
        => CompleteWar(disk, sync.war_number)

\* C22: in every state the connection can see, every Map row's war_number
\* has a War row and every Label row and Icon row has a Map row with the
\* same (map_name, war_number); an insert_map, insert_label or insert_icon
\* whose parent row is missing raises and leaves the tables as they were.
C22_ReferentialIntegrity ==
    /\ \A m \in view.maps : m.war_number \in WarNumbersOf(view)
    /\ \A l \in view.labels : MapRow(l.map_name, l.war_number) \in view.maps
    /\ \A i \in view.icons : MapRow(i.map_name, i.war_number) \in view.maps
    /\ (After("insert_map") /\ last.arg[2] \notin WarNumbersOf(last.pre))
           => (last.exc # NoExc /\ view = last.pre)
    /\ (/\ After("insert_label") \/ After("insert_icon")
        /\ MapRow(last.arg.map_name, last.arg.war_number) \notin last.pre.maps)
           => (last.exc # NoExc /\ view = last.pre)

\* the primary keys of labels and icons (DB.generate_db)
LabelKey(l) == <<l.map_name, l.war_number, l.label>>

IconKey(i) == <<i.map_name, i.war_number, i.x, i.y>>

\* a row that a complete ingestion of war n inserts has its key in `pre'
IngestCollides(pre, n) ==
    \/ IngestedMaps(EmptyTables, n) \cap pre.maps # {}
    \/ \E l \in IngestedLabels(EmptyTables, n), o \in pre.labels :
           LabelKey(l) = LabelKey(o)
    \/ \E i \in IngestedIcons(EmptyTables, n), o \in pre.icons :
           IconKey(i) = IconKey(o)

FetchedOn(w) == w.last_fetched_on.iso

RowsOf(user_id, guild, v) ==
    {o \in v.users : o.user_id = user_id /\ o.guild = guild}

\* C26: insert_or_update_user(u, g, r) returns, on a new key and on a stored
\* one, and leaves exactly one row for (u, g), holding r; select_user_role
\* returns the role of the stored row of its key and raises
\* UniqueRowNotFoundException when the key has no row.
C26_UserRoleUpsert ==
    /\ After("insert_or_update_user") =>
        /\ last.exc = NoExc
        /\ \A o \in RowsOf(last.arg.user_id, last.arg.guild, view) :
               o.role = Str(last.arg.role.name)
        /\ Cardinality(RowsOf(last.arg.user_id, last.arg.guild, view)) = 1
    /\ After("select_user_role") =>
        IF RowsOf(last.arg[1], last.arg[2], view) = {}
        THEN last.exc = "UniqueRowNotFoundException"
        ELSE /\ last.exc = NoExc
             /\ \A o \in RowsOf(last.arg[1], last.arg[2], view) :
                    o.role = Str(last.val.name)

\* the label types that name each filter
MajorFilters == {<<"M", "a", "j", "o", "r">>, <<"M", "A", "J", "O", "R">>}

MinorFilters == {<<"M", "i", "n", "o", "r">>, <<"m", "i", "n", "o", "r">>}

BothFilters == {<<"B", "o", "t", "h">>, <<"B", "O", "T", "H">>}

\* the items of the given kinds, in source order, as the tuples returned
Returned(items, kinds) ==
    LET kept == SelectSeq(items, LAMBDA item : item.mapMarkerType \in kinds) IN
    [i \in 1..Len(kept) |->
        <<kept[i].text, kept[i].x, kept[i].y, kept[i].mapMarkerType>>]

\* C27: get_labels returns exactly the Major items for the Major filter,
\* exactly the Minor items for the Minor filter and every item for Both,
\* each in source order, and raises ValueError, returning nothing, for
\* every other label type.
C27_FetchLabelsFiltering ==
    After("get_labels") =>
        LET items == last.arg[1]
            label_type == last.arg[2]
        IN
        IF label_type \in MajorFilters
        THEN last.exc = NoExc /\ last.val = Returned(items, {"Major"})
        ELSE IF label_type \in MinorFilters
        THEN last.exc = NoExc /\ last.val = Returned(items, {"Minor"})
        ELSE IF label_type \in BothFilters
        THEN last.exc = NoExc /\ last.val = Returned(items, {"Major", "Minor"})
        ELSE last.exc = "ValueError" /\ last.val = None

\* C27 witness: the Major filter dropped a Minor item that stood before a
\* Major item it kept.
C27_Witness ==
    /\ After("get_labels")
    /\ last.arg[2] \in MajorFilters
    /\ Len(last.arg[1]) = 2
    /\ last.arg[1][1].mapMarkerType = "Minor"
    /\ last.arg[1][2].mapMarkerType = "Major"
    /\ last.exc = NoExc
    /\ Len(last.val) = 1
    /\ last.val[1][1] = last.arg[1][2].text

\* the storage inserts
InsertOps ==
    {"insert_war", "insert_map", "insert_label", "insert_icon", "insert_ticket"}

\* C29: when a storage insert has returned, no row it added to the
\* connection's view is among the committed rows: the row becomes durable
\* only by the caller's commit.
C29_InsertsDoNotCommit ==
    (Idle /\ last.op \in InsertOps /\ last.exc = NoExc)
        => /\ (view.wars \ last.pre.wars) \cap disk.wars = {}
           /\ (view.maps \ last.pre.maps) \cap disk.maps = {}
           /\ (view.labels \ last.pre.labels) \cap disk.labels = {}
           /\ (view.icons \ last.pre.icons) \cap disk.icons = {}
           /\ (view.tickets \ last.pre.tickets) \cap disk.tickets = {}

\* C30: every stored ticket's war_number has a War row, its destination hex
\* is a Map row under the ticket's war_number and so is its origin hex when
\* the ticket has an origin; the ticket an insert_ticket call stored carries
\* the latest war number of the store the call found.
C30_TicketReferences ==
    /\ \A t \in view.tickets :
        /\ t.war_number \in WarNumbersOf(view)
        /\ MapRow(t.destination_map_name, t.war_number) \in view.maps
        /\ t.origin_map_name # None
               => MapRow(t.origin_map_name[1], t.war_number) \in view.maps
    /\ (After("insert_ticket") /\ last.exc = NoExc)
           => /\ last.pre.wars # {}
              /\ \A t \in view.tickets \ last.pre.tickets :
                     t.war_number = MaxWarNumber(last.pre)

\* C30 witness: insert_ticket stored a ticket with an origin, and both its
\* hexes are Map rows of the latest war.
C30_Witness ==
    /\ After("insert_ticket")
    /\ last.exc = NoExc
    /\ \E t \in view.tickets \ last.pre.tickets :
        /\ t.origin_map_name # None
        /\ t.origin_map_name[1] # t.destination_map_name
        /\ t.war_number = MaxWarNumber(view)
        /\ MapRow(t.origin_map_name[1], t.war_number) \in view.maps
        /\ MapRow(t.destination_map_name, t.war_number) \in view.maps

\* the hexes a running sync_war has not inserted the Map row of
HexesAhead ==
    LET rest == IF sync.pc = "insert_map" THEN sync.hexes ELSE Tail(sync.hexes)
    IN {rest[i] : i \in 1..Len(rest)}

\* C31: at every point of a sync_war run past its insert_war, the War row of
\* the new war is written; no Map row of the run is written before it;
\* while the labels and icons of a hex are fetched and inserted the Map row
\* of that hex is written; and no label or icon of a hex whose Map row the
\* run has yet to insert has been written by the run.
C31_SyncInsertionOrder ==
    (~Idle /\ sync.inserted) =>
        /\ sync.war_number \in WarNumbersOf(view)
        /\ sync.pc = "get_maps" =>
               /\ view.maps = sync.pre.maps
               /\ view.labels = sync.pre.labels
               /\ view.icons = sync.pre.icons
        /\ sync.pc \in {"get_labels", "get_icons"} =>
               MapRow(Head(sync.hexes), sync.war_number) \in view.maps
        /\ sync.pc \in {"insert_map", "get_labels", "get_icons"} =>
               \A h \in HexesAhead :
                   /\ MapRow(h, sync.war_number) \notin view.maps \ sync.pre.maps
                   /\ \A l \in view.labels \ sync.pre.labels : l.map_name # h
                   /\ \A i \in view.icons \ sync.pre.icons : i.map_name # h
        /\ sync.pc = "get_labels" =>
               \A i \in view.icons \ sync.pre.icons :
                   i.map_name # Head(sync.hexes)

\* C31 witness: the run has written the first hex's Map row, labels and
\* icons and is about to insert the Map row of the second hex.
C31_Witness ==
    /\ sync.pc = "insert_map"
    /\ Len(sync.hexes) = 1
    /\ sync.war_number \in WarNumbersOf(view)
    /\ MapRow(ApiHexes[1], sync.war_number) \in view.maps
    /\ \E l \in view.labels \ sync.pre.labels : l.map_name = ApiHexes[1]
    /\ \E i \in view.icons \ sync.pre.icons : i.map_name = ApiHexes[1]
    /\ MapRow(ApiHexes[2], sync.war_number) \notin view.maps

\* the tables `v' keep every Map, Label and Icon row and every ticket of
\* the tables `pre'
KeepsRows(pre, v) ==
    /\ pre.maps \subseteq v.maps
    /\ pre.labels \subseteq v.labels
    /\ pre.icons \subseteq v.icons
    /\ pre.tickets \subseteq v.tickets

\* the reads of the latest war's data
LatestReads ==
    {"select_latest_maps", "select_latest_labels_for_map",
     "get_latest_icons_for_map"}

LastKnownWar(map_name, v) ==
    LET known == {m.war_number : m \in {o \in v.maps : o.map_name = map_name}}
    IN IF known = {} THEN None
       ELSE Some(CHOOSE n \in known : \A o \in known : o <= n)

\* C33: get_latest_icons_for_map for a hex that is no Map row of the latest
\* war, on a store whose latest war has Map rows, raises
\* MapDoesNotExistInCurrentWarException carrying the highest war number
\* under which the hex has a Map row, or "unknown" when it has none.
C33_LastKnownWarDiagnostic ==
    (/\ After("get_latest_icons_for_map")
     /\ view.wars # {}
     /\ MapsOfLatestWar(view) # {}
     /\ MapRow(last.arg, MaxWarNumber(view)) \notin view.maps)
        => /\ last.exc = "MapDoesNotExistInCurrentWarException"
           /\ last.val = LastKnownWar(last.arg, view)

\* the hex is a Map row of some war
NameIsMapped(map_name, v) == \E m \in v.maps : m.map_name = map_name

\* the draft has all four origin fields
FullOrigin(t) == OriginFieldsSet(t) = 4

\* C34: insert_ticket for a draft whose war_number is not the latest war
\* number raises CannotCreateTicketForWarException whatever its destination
\* and origin hexes are; for a draft of the latest war whose destination and
\* origin hexes are both no Map row of that war, the exception is the one
\* of the destination hex.
C34_ValidationOrder ==
    /\ (/\ After("insert_ticket")
        /\ last.pre.wars # {}
        /\ last.arg.war_number # MaxWarNumber(last.pre))
           => (last.exc = "CannotCreateTicketForWarException" /\ view = last.pre)
    /\ (/\ AfterCurrentWarDraft
        /\ ~DestinationIsMapped
        /\ FullOrigin(last.arg)
        /\ ~OriginIsMapped)
           => /\ view = last.pre
              /\ last.exc =
                   IF NameIsMapped(last.arg.destination_map_name, last.pre)
                   THEN "MapDoesNotExistInCurrentWarException"
                   ELSE MapDoesNotExistException

\* C34 witness: a draft of the latest war whose destination hex is in no war
\* and whose origin hex is only under another war was rejected for its
\* destination.
C34_Witness ==
    /\ AfterCurrentWarDraft
    /\ ~NameIsMapped(last.arg.destination_map_name, last.pre)
    /\ FullOrigin(last.arg)
    /\ NameIsMapped(last.arg.origin_map_name[1], last.pre)
    /\ ~OriginIsMapped
    /\ last.exc = MapDoesNotExistException
    /\ view = last.pre

\* C35: insert_ticket on a store without a War row raises
\* NoDataReturnedException for every draft and stores no ticket.
C35_NoWarNoData ==
    (After("insert_ticket") /\ last.pre.wars = {})
        => /\ last.exc = "NoDataReturnedException"
           /\ view = last.pre
           /\ disk = last.pre

\* C35 witness: on a store with Map rows for both hexes of a draft under the
\* draft's war_number, but no War row, the draft was rejected with
\* NoDataReturnedException.
C35_Witness ==
    /\ After("insert_ticket")
    /\ last.pre.wars = {}
    /\ DestinationIsMapped
    /\ FullOrigin(last.arg)
    /\ OriginIsMapped
    /\ last.exc = "NoDataReturnedException"
    /\ view.tickets = {}

\* C36: insert_ticket for a draft of the latest war with a mapped
\* destination and one to three origin fields set returns and stores the
\* ticket without any origin field, whether or not the given
\* origin_map_name is a Map row.
C36_PartialOriginAccepted ==
    (/\ AfterCurrentWarDraft
     /\ DestinationIsMapped
     /\ OriginFieldsSet(last.arg) \in 1..3)
        => /\ StoredNewTicket
           /\ \A t \in TicketsNumbered(last.val, view) : OriginFieldsSet(t) = 0

\* C36 witness: a draft that names an origin hex found in no war, without an
\* origin description, was stored without origin.
C36_Witness ==
    /\ AfterCurrentWarDraft
    /\ DestinationIsMapped
    /\ last.arg.origin_map_name # None
    /\ ~NameIsMapped(last.arg.origin_map_name[1], last.pre)
    /\ last.arg.origin_description = None
    /\ last.exc = NoExc
    /\ \E t \in TicketsNumbered(last.val, view) : t.origin_map_name = None

\* the ticket numbers stored in the tables `v'
TicketNumbersOf(v) == {t.ticket_number : t \in v.tickets}

\* C37: no two stored tickets share a ticket number; an insert_ticket that
\* returns gives a number greater than every number stored before and adds
\* exactly the row of that number; an insert_ticket that raises adds no
\* row; select_ticket never raises MultipleUniqueRowsException.
C37_UniqueTicketIds ==
    /\ \A t, o \in view.tickets : t.ticket_number = o.ticket_number => t = o
    /\ After("insert_ticket") =>
        IF last.exc = NoExc
        THEN /\ \A n \in TicketNumbersOf(last.pre) : n < last.val
             /\ TicketNumbersOf(view) = TicketNumbersOf(last.pre) \cup {last.val}
             /\ Cardinality(view.tickets) = Cardinality(last.pre.tickets) + 1
        ELSE view = last.pre
    /\ After("select_ticket") => last.exc # "MultipleUniqueRowsException"

\* C37 witness: a second ticket was stored, under a number above the first
\* ticket's, with the same content as the first.
C37_Witness ==
    /\ After("insert_ticket")
    /\ last.exc = NoExc
    /\ \E o \in last.pre.tickets, t \in view.tickets \ last.pre.tickets :
        /\ o.ticket_number < t.ticket_number
        /\ t.ticket_number = last.val
        /\ [t EXCEPT !.ticket_number = o.ticket_number] = o

\* C38: for a hex that is a Map row of the latest war, with the maps table
\* holding no row of a later war, get_latest_icons_for_map returns the empty
\* list when the hex has no icon in the latest war, and
\* select_latest_labels_for_map raises NoLabelsForMapInCurrentWarException
\* when the hex has no label in the latest war.
C38_EmptyIconsVersusNoLabels ==
    (/\ Idle
     /\ view.wars # {}
     /\ last.op \in {"get_latest_icons_for_map", "select_latest_labels_for_map"}
     /\ MapRow(last.arg, MaxWarNumber(view)) \in maps_of_highest_war(view))
        => /\ (/\ last.op = "get_latest_icons_for_map"
               /\ \A i \in view.icons :
                      i.map_name = last.arg => i.war_number # MaxWarNumber(view))
                  => (last.exc = NoExc /\ last.val = {})
           /\ (/\ last.op = "select_latest_labels_for_map"
               /\ \A l \in view.labels :
                      l.map_name = last.arg => l.war_number # MaxWarNumber(view))
                  => last.exc = "NoLabelsForMapInCurrentWarException"

\* C39: a sync_war call ends in one of two ways: it raises, and then the
\* tables are as they were before the call and nothing of the call is
\* committed; or it returns, and then everything it wrote is committed.
C39_SyncTwoOutcomes ==
    After("sync_war") =>
        IF last.exc # NoExc
        THEN /\ view = last.pre
             /\ disk.wars \subseteq last.pre.wars
             /\ disk.maps \subseteq last.pre.maps
             /\ disk.labels \subseteq last.pre.labels
             /\ disk.icons \subseteq last.pre.icons
        ELSE disk = view

====
